---- MODULE Spec2Model ----
(***************************************************************************)
(* Model of the lander operation core of ow_autonomy's OwInterface         *)
(* (src/src/plexil-adapter/OwInterface.cpp): the Running registry with     *)
(* mark_operation_running / mark_operation_finished, the dispatch entry    *)
(* points, the detached action threads (runAction, guardedMoveAction), the *)
(* backend done callbacks, and the telemetry callbacks that complete       *)
(* pan/tilt and TakePicture.                                               *)
(*                                                                         *)
(* Units: angles are integers in tenths of a degree, time is in seconds.   *)
(* Goal payloads (x, y, z, ...) never influence the registry and are       *)
(* left out of the entry points' parameters.                               *)
(***************************************************************************)
EXTENDS Integers, Sequences, FiniteSets, TLC

(* ------------------------------ bounds -------------------------------- *)

\* Number of commands the plan executive issues in one behaviour.
MaxCmds == 2

\* Number of steps the clock takes in one behaviour.
MaxTicks == 2

\* Number of concurrent callers of mark_operation_running in SpecAdmitRace.
NumCallers == 2

\* Number of registry calls made in one behaviour of SpecRegistry.
MaxCalls == 4

\* Number of fault messages delivered in one behaviour of SpecFaults.
MaxSnapshots == 4

\* Number of joint-state messages delivered in one behaviour of SpecTorque.
MaxSamples == 3

\* Number of calls made in one behaviour of SpecQuery.
MaxQueries == 4

(* ------------------------- program constants -------------------------- *)

IDLE_ID == -1

\* 0.2 degrees, in tenths of a degree.
DegreeTolerance == 2

\* seconds
PanTiltTimeout == 5

Op_GuardedMove == "Guarded_move"
Op_DigCircular == "DigCircular"
Op_DigLinear   == "DigLinear"
Op_Deliver     == "Deliver"
Op_PanAntenna  == "PanAntenna"
Op_TiltAntenna == "TiltAntenna"
Op_Grind       == "Grind"
Op_Stow        == "Stow"
Op_Unstow      == "Unstow"
Op_TakePicture == "TakePicture"

\* The keys of the Running table.
LanderOpNames ==
  { Op_GuardedMove, Op_DigCircular, Op_DigLinear, Op_Deliver,
    Op_PanAntenna, Op_TiltAntenna, Op_Grind, Op_Stow, Op_Unstow,
    Op_TakePicture }

\* The operations dispatched through runAction (event policy, generic done
\* callback).
RunActionOps ==
  { Op_DigCircular, Op_DigLinear, Op_Deliver, Op_Grind, Op_Stow, Op_Unstow }

\* The operations that own an action client and a detached action thread.
ActionOps == RunActionOps \cup { Op_GuardedMove }

\* ROS joint names of the JointMap, in the order of the table.
JointMap ==
  << "j_shou_yaw", "j_shou_pitch", "j_prox_pitch", "j_dist_pitch",
     "j_hand_yaw", "j_scoop_yaw", "j_ant_pan", "j_ant_tilt", "j_grinder" >>

\* JointPropMap, keyed by the ROS name of the joint (JointMap is one-to-one
\* from ROS names to the Joint enumeration).
JointProp(plexilName, soft, hard) ==
  [ plexilName |-> plexilName, softTorqueLimit |-> soft,
    hardTorqueLimit |-> hard ]

JointPropMap ==
  [ j \in { JointMap[i] : i \in DOMAIN JointMap } |->
      CASE j = "j_shou_yaw"   -> JointProp("ShoulderYaw", 60, 80)
        [] j = "j_shou_pitch" -> JointProp("ShoulderPitch", 60, 80)
        [] j = "j_prox_pitch" -> JointProp("ProximalPitch", 60, 80)
        [] j = "j_dist_pitch" -> JointProp("DistalPitch", 60, 80)
        [] j = "j_hand_yaw"   -> JointProp("HandYaw", 60, 80)
        [] j = "j_scoop_yaw"  -> JointProp("ScoopYaw", 60, 80)
        [] j = "j_ant_pan"    -> JointProp("AntennaPan", 30, 30)
        [] j = "j_ant_tilt"   -> JointProp("AntennaTilt", 30, 30)
        [] j = "j_grinder"    -> JointProp("Grinder", 30, 30) ]

\* The fault tables of the four domains: fault name and bit value, in the
\* iteration order of the std::map (by name).  The tables are members
\* declared in the class header; each fault starts not asserted.  The arm
\* table numbers its faults consecutively, so that COLLISION_ERROR has a
\* value with two bits set.
Fault(key, value) == [ key |-> key, value |-> value ]

SystemFaultTable ==
  << Fault("ARM_GOAL_ERROR", 2), Fault("SYSTEM", 1) >>
ArmFaultTable ==
  << Fault("COLLISION_ERROR", 3), Fault("HARDWARE_ERROR", 1),
     Fault("TRAJECTORY_GENERATION_ERROR", 2) >>
PowerFaultTable ==
  << Fault("HARDWARE_ERROR", 1) >>
PTFaultTable ==
  << Fault("HARDWARE_ERROR", 1), Fault("JOINT_LIMIT_ERROR", 2) >>

FaultKeys(table) == { table[i].key : i \in DOMAIN table }

(* ------------------------------ inputs -------------------------------- *)

\* Angles in tenths of a degree.  The antenna starts at 0 and its controller
\* reports the set point 3; the commanded goals are 1 and 3.  So a goal can
\* be met exactly (3 at 3), met within the tolerance (1 at 0), met on the
\* boundary of the tolerance (1 at 3) and missed (3 at 0).
SetPoints == { 3 }
GoalAngles == { 1, 3 }

\* Joint-state batches delivered on /joint_states: the catalog joints, and
\* the same batch with a foreign joint in place of the pan or tilt joint.
Batches ==
  { JointMap,
    [ JointMap EXCEPT ![7] = "j_unknown" ],
    [ JointMap EXCEPT ![8] = "j_unknown" ] }

\* The values of the fault messages: every combination of the two low bits.
FaultMasks == 0..3

\* Efforts reported for the shoulder yaw joint (limits 60 / 80): below the
\* soft limit, between the limits with either sign, and at the hard limit;
\* and for the antenna pan joint (limits 30 / 30): below and at the limit.
\* The other joints of a message report effort 0.
ShoulderEfforts == { 10, 65, -65, 80 }
PanEfforts == { 0, 30 }

\* Joint-state messages of SpecBatch, for a shoulder yaw effort shou and a
\* grinder effort grind (the other efforts are 0): the catalog joints in the
\* order of JointMap; the same in reverse order; with a foreign joint in
\* place of the second; ten entries, a foreign joint followed by the
\* catalog joints; and eight entries, the catalog joints without the last.
BatchEffort(name, shou, grind) ==
  IF name = "j_shou_yaw" THEN shou
  ELSE IF name = "j_grinder" THEN grind ELSE 0

BatchOf(names, shou, grind) ==
  [ name |-> names,
    effort |-> [ i \in DOMAIN names |-> BatchEffort(names[i], shou, grind) ] ]

BatchNames ==
  { JointMap,
    [ i \in DOMAIN JointMap |-> JointMap[Len(JointMap) + 1 - i] ],
    [ JointMap EXCEPT ![2] = "j_unknown" ],
    << "j_unknown" >> \o JointMap,
    SubSeq(JointMap, 1, Len(JointMap) - 1) }

BatchMessages ==
  { BatchOf(names, shou, grind) :
      names \in BatchNames, shou \in { 0, 65 }, grind \in { 0, 30 } }

\* What the read of an entry beyond the end of a message can yield (the
\* behaviour is undefined): the process ends, or the read returns whatever
\* follows the message in memory - a string that is no joint name, or one
\* that is, with some effort.
OutOfRangeReads ==
  { [ crash |-> TRUE, name |-> "j_unknown", effort |-> 0 ],
    [ crash |-> FALSE, name |-> "j_unknown", effort |-> 0 ],
    [ crash |-> FALSE, name |-> "j_grinder", effort |-> 30 ] }

\* The names passed to running(): two operations and a name outside the
\* catalog.
QueryNames == { Op_DigLinear, Op_PanAntenna, "Drill" }

(* ------------------------------- state -------------------------------- *)

VARIABLES
  Running,        \* map<string,int> Running: operation name -> id or IDLE_ID
  events,         \* per operation: publish()es, log lines, status callbacks,
                  \* thread starts/joins and backend sends, in program order
  initialized,    \* initialize() has run: clients, publishers, subscribers exist
  terminated,     \* the process has ended abnormally
  pc,             \* per action operation: position of its detached action thread
  tid,            \* per action operation: the id argument of its action thread
  goal,           \* per action client: state of the goal it tracks
  GroundFound,    \* static bool GroundFound
  now,            \* ros::Time::now()
  m_currentPan, m_currentTilt,
  m_goalPan, m_goalTilt,
  m_panStart, m_tiltStart,
  nextId,         \* next command id of the plan executive
  cmds,           \* history: the entry-point calls made, with the admit result
  caller,         \* SpecAdmitRace: callers inside mark_operation_running
  calls,          \* SpecRegistry: history of the registry calls made
  systemErrors, armErrors, powerErrors, ptErrors,
                  \* per fault domain: fault name -> asserted flag (the
                  \* .second of the map's pair)
  rosout,         \* log lines of the fault callbacks and of running()
  snapshot,       \* SpecFaults: the latest fault message delivered
  JointsAtHardTorqueLimit, JointsAtSoftTorqueLimit,
  JointTelemetryMap,  \* joint -> effort of its latest sample, or NoTelemetry
  samples         \* SpecTorque: history of the effort batches delivered

vars ==
  << Running, events, initialized, terminated, pc, tid, goal, GroundFound,
     now, m_currentPan, m_currentTilt, m_goalPan, m_goalTilt,
     m_panStart, m_tiltStart, nextId, cmds, caller, calls,
     systemErrors, armErrors, powerErrors, ptErrors, rosout, snapshot,
     JointsAtHardTorqueLimit, JointsAtSoftTorqueLimit, JointTelemetryMap,
     samples >>

faultVars == << systemErrors, armErrors, powerErrors, ptErrors, snapshot >>

torqueVars ==
  << JointsAtHardTorqueLimit, JointsAtSoftTorqueLimit, JointTelemetryMap,
     samples >>

trackerVars == << faultVars, rosout, torqueVars >>

auxVars == << caller, calls, trackerVars >>

antennaVars ==
  << m_currentPan, m_currentTilt, m_goalPan, m_goalTilt, m_panStart,
     m_tiltStart >>

threadVars == << pc, tid, goal, GroundFound >>

(* ------------------------------ events -------------------------------- *)

Ev(kind, id, b) == [ kind |-> kind, id |-> id, b |-> b ]

\* publish (key, value, name)
publish(key, b) == Ev(key, IDLE_ID, b)

\* CommandStatusCallback (id, success)
Status(id, b) == Ev("Status", id, b)

\* ROS_WARN / ROS_ERROR / ROS_INFO lines and thread / backend operations
Note(kind) == Ev(kind, IDLE_ID, FALSE)

(* ----------------------------- registry ------------------------------- *)

is_lander_operation(name) == name \in DOMAIN Running

\* Mutant: the guard of mark_operation_running never rejects.
AlreadyRunningNever(R, name) == FALSE

\* The guard of mark_operation_running: Running.at (name) != IDLE_ID
AlreadyRunning(R, name) == R[name] # IDLE_ID

\* mark_operation_running (name, id) on registry R: the return value, the
\* registry afterwards, and what it emits.
mark_operation_running(R, name, id) ==
  IF AlreadyRunning(R, name)
  THEN [ ok |-> FALSE, R |-> R, out |-> << Note("WARN_already_running") >> ]
  ELSE [ ok |-> TRUE,
         R |-> [ R EXCEPT ![name] = id ],
         out |-> << publish("Running", TRUE) >> ]

\* The condition of line 120, (! Running.at (name) == IDLE_ID): the logical
\* negation binds first and yields 0 or 1, which is then compared to IDLE_ID.
NotRunningCondition(r) == (IF r = 0 THEN 1 ELSE 0) = IDLE_ID

\* Mutant: the status callback is invoked whatever the id.
FinishStatusAlways(id) == << Status(id, TRUE) >>

\* Mutant: the status callback reports failure.
FinishStatusFailure(id) ==
  IF id # IDLE_ID THEN << Status(id, FALSE) >> ELSE << >>

\* The status callback of mark_operation_finished, line 126.
FinishStatus(id) == IF id # IDLE_ID THEN << Status(id, TRUE) >> ELSE << >>

\* Mutant: mark_operation_finished without the assignment of line 123.
mark_operation_finished_no_reset(R, name, id) ==
  [ R |-> R,
    out |-> << publish("Running", FALSE), publish("Finished", TRUE) >>
            \o FinishStatus(id) ]

\* mark_operation_finished (name, id) on registry R.
mark_operation_finished(R, name, id) ==
  [ R |-> [ R EXCEPT ![name] = IDLE_ID ],
    out |-> (IF NotRunningCondition(R[name])
             THEN << Note("WARN_was_not_running") >> ELSE << >>)
            \o << publish("Running", FALSE), publish("Finished", TRUE) >>
            \o FinishStatus(id) ]

\* Mutant: every operation is taken to be Running.
operationRunningAlways(R, name) == TRUE

operationRunning(R, name) == R[name] # IDLE_ID

(* --------------------------- initial state ---------------------------- *)

Init ==
  /\ Running = [ n \in LanderOpNames |-> IDLE_ID ]
  /\ events = [ n \in LanderOpNames |-> << >> ]
  /\ initialized = FALSE
  /\ terminated = FALSE
  /\ pc = [ n \in ActionOps |-> "none" ]
  /\ tid = [ n \in ActionOps |-> IDLE_ID ]
  /\ goal = [ n \in ActionOps |-> "none" ]
  /\ GroundFound = FALSE
  /\ now = 0
  /\ m_currentPan = 0 /\ m_currentTilt = 0
  /\ m_goalPan = 0 /\ m_goalTilt = 0
  /\ m_panStart = 0 /\ m_tiltStart = 0
  /\ nextId = 0
  /\ cmds = << >>
  /\ caller = [ t \in 1..NumCallers |-> [ pc |-> "idle", name |-> Op_DigLinear,
                                          id |-> IDLE_ID, ret |-> FALSE ] ]
  /\ calls = << >>
  /\ systemErrors = [ k \in FaultKeys(SystemFaultTable) |-> FALSE ]
  /\ armErrors = [ k \in FaultKeys(ArmFaultTable) |-> FALSE ]
  /\ powerErrors = [ k \in FaultKeys(PowerFaultTable) |-> FALSE ]
  /\ ptErrors = [ k \in FaultKeys(PTFaultTable) |-> FALSE ]
  /\ rosout = << >>
  /\ snapshot = [ domain |-> "none", value |-> 0, n |-> 0 ]
  /\ JointsAtHardTorqueLimit = { }
  /\ JointsAtSoftTorqueLimit = { }
  /\ JointTelemetryMap = [ j \in { } |-> 0 ]
  /\ samples = << >>

(* ------------------------- dispatch entry points ---------------------- *)

\* The plan executive issues commands one after another, each with a fresh
\* command id; IDLE_ID is documented as an unused operation id (line 85).
CanIssue(id) == ~terminated /\ id = nextId /\ id < MaxCmds

Record(name, id, ok) ==
  /\ cmds' = Append(cmds, [ name |-> name, id |-> id, ok |-> ok ])
  /\ nextId' = nextId + 1

\* Body shared by guardedMove, digLinear, digCircular, deliver, unstow, stow
\* and grind: admit, then start a detached action thread carrying the id.
\* The plan of the model commands guardedMove, digLinear and deliver; the
\* entry points digCircular, unstow, stow and grind have the same body and
\* the same runAction template as digLinear and deliver.
Dispatch(name, id) ==
  LET m == mark_operation_running(Running, name, id) IN
  /\ CanIssue(id)
  /\ Running' = m.R
  /\ events' = [ events EXCEPT ![name] =
                   @ \o m.out
                     \o (IF m.ok THEN << Note("action_thread") >> ELSE << >>) ]
  /\ pc' = IF m.ok THEN [ pc EXCEPT ![name] = "start" ] ELSE pc
  /\ tid' = IF m.ok THEN [ tid EXCEPT ![name] = id ] ELSE tid
  /\ Record(name, id, m.ok)
  /\ UNCHANGED << initialized, terminated, goal, GroundFound, now,
                  antennaVars, auxVars >>

guardedMove(id) == Dispatch(Op_GuardedMove, id)
digLinear(id)   == Dispatch(Op_DigLinear, id)
deliver(id)     == Dispatch(Op_Deliver, id)

\* What follows a successful admit in antenna_op and takePicture: the fault
\* thread is started and detached, then the command is published.  Before
\* initialize() the publisher pointer is null and the call through it ends
\* the process.
PublishCommand ==
  << Note("fault_thread_detach") >>
  \o (IF initialized THEN << Note("publish_command") >> ELSE << >>)

\* Mutant: antenna_op without the early return of line 619.
antenna_op_no_return(name, id) ==
  LET m == mark_operation_running(Running, name, id) IN
  /\ Running' = m.R
  /\ events' = [ events EXCEPT ![name] = @ \o m.out \o PublishCommand ]
  /\ terminated' = ~initialized
  /\ Record(name, id, m.ok)

\* antenna_op (opname, degrees, pub, id)
antenna_op(name, id) ==
  LET m == mark_operation_running(Running, name, id) IN
  /\ Running' = m.R
  /\ events' = [ events EXCEPT ![name] =
                   @ \o m.out \o (IF m.ok THEN PublishCommand ELSE << >>) ]
  /\ terminated' = (m.ok /\ ~initialized)
  /\ Record(name, id, m.ok)

tiltAntenna(degrees, id) ==
  /\ CanIssue(id)
  /\ m_goalTilt' = degrees
  /\ m_tiltStart' = now
  /\ antenna_op(Op_TiltAntenna, id)
  /\ UNCHANGED << initialized, threadVars, now, m_currentPan, m_currentTilt,
                  m_goalPan, m_panStart, auxVars >>

panAntenna(degrees, id) ==
  /\ CanIssue(id)
  /\ m_goalPan' = degrees
  /\ m_panStart' = now
  /\ antenna_op(Op_PanAntenna, id)
  /\ UNCHANGED << initialized, threadVars, now, m_currentPan, m_currentTilt,
                  m_goalTilt, m_tiltStart, auxVars >>

takePicture(id) ==
  LET m == mark_operation_running(Running, Op_TakePicture, id) IN
  /\ CanIssue(id)
  /\ Running' = m.R
  /\ events' = [ events EXCEPT ![Op_TakePicture] =
                   @ \o m.out \o (IF m.ok THEN PublishCommand ELSE << >>) ]
  /\ terminated' = (m.ok /\ ~initialized)
  /\ Record(Op_TakePicture, id, m.ok)
  /\ UNCHANGED << initialized, threadVars, now, antennaVars, auxVars >>

(* ----------------------------- initialize ----------------------------- *)

\* initialize(): creates the publishers, the subscribers and the action
\* clients.  The adapter calls it once.
initialize ==
  /\ ~terminated
  /\ ~initialized
  /\ initialized' = TRUE
  /\ UNCHANGED << Running, events, terminated, threadVars, now, antennaVars,
                  nextId, cmds, auxVars >>

(* --------------------------- action threads --------------------------- *)

\* The client pointer tested by "if (ac)" / "if (m_guardedMoveClient)".
ClientPresent == initialized

\* Mutant: the null-client branch completes the operation before returning.
NullClientRollsBack(R, name, id) ==
  LET f == mark_operation_finished(R, name, id) IN
  [ R |-> f.R, out |-> << Note("ERROR_client_null") >> \o f.out ]

\* The else branch of "if (ac)": an error is logged and the function
\* returns; the registry is not touched.
NullClient(R, name, id) ==
  [ R |-> R, out |-> << Note("ERROR_client_null") >> ]

\* Mutant: on a timeout the operation is not marked finished.
AfterWaitTimeoutSkips(R, name, id, finished_before_timeout) ==
  IF finished_before_timeout
  THEN mark_operation_finished(R, name, id)
  ELSE [ R |-> R, out |-> << Note("WARN_timeout") >> ]

\* What follows waitForResult: the warning when the wait timed out, then
\* mark_operation_finished in either case.
AfterWait(R, name, id, finished_before_timeout) ==
  LET f == mark_operation_finished(R, name, id) IN
  [ R |-> f.R,
    out |-> (IF finished_before_timeout THEN << >>
             ELSE << Note("WARN_timeout") >>) \o f.out ]

\* First half of runAction / guardedMoveAction: start the fault thread and
\* send the goal.  With a null client the function logs and returns while
\* fault_thread is still joinable, and the destructor of a joinable
\* std::thread calls std::terminate.
ActionSend(name) ==
  LET null == NullClient(Running, name, tid[name]) IN
  /\ ~terminated
  /\ pc[name] = "start"
  /\ IF ClientPresent
     THEN /\ events' = [ events EXCEPT ![name] =
                           @ \o << Note("fault_thread_start"),
                                   Ev("sendGoal", tid[name], FALSE) >> ]
          /\ goal' = [ goal EXCEPT ![name] = "active" ]
          /\ pc' = [ pc EXCEPT ![name] = "waiting" ]
          /\ UNCHANGED << Running, terminated >>
     ELSE /\ Running' = null.R
          /\ events' = [ events EXCEPT ![name] =
                           @ \o << Note("fault_thread_start") >> \o null.out ]
          /\ pc' = [ pc EXCEPT ![name] = "none" ]
          /\ terminated' = TRUE
          /\ UNCHANGED goal
  /\ UNCHANGED << initialized, tid, GroundFound, now, antennaVars,
                  nextId, cmds, auxVars >>

\* Second half: waitForResult returns, true when the done callback has
\* fired and false when ActionTimeoutSecs elapsed first; then the operation
\* is marked finished and the fault thread joined.
ActionWait(name) ==
  LET finished_before_timeout == goal[name] = "done"
      f == AfterWait(Running, name, tid[name], finished_before_timeout)
  IN
  /\ ~terminated
  /\ pc[name] = "waiting"
  /\ Running' = f.R
  /\ events' = [ events EXCEPT ![name] =
                   @ \o f.out \o << Note("fault_thread_join") >> ]
  /\ pc' = [ pc EXCEPT ![name] = "none" ]
  /\ UNCHANGED << initialized, terminated, tid, goal, GroundFound, now,
                  antennaVars, nextId, cmds, auxVars >>

runActionSend(name) == name \in RunActionOps /\ ActionSend(name)
runActionWait(name) == name \in RunActionOps /\ ActionWait(name)
guardedMoveActionSend == ActionSend(Op_GuardedMove)
guardedMoveActionWait == ActionWait(Op_GuardedMove)

(* -------------------------- backend callbacks ------------------------- *)

\* action_done_cb: log only.  (active_cb logs, action_feedback_cb is empty.)
action_done_cb(name) ==
  /\ ~terminated
  /\ name \in RunActionOps
  /\ goal[name] = "active"
  /\ goal' = [ goal EXCEPT ![name] = "done" ]
  /\ UNCHANGED << Running, events, initialized, terminated, pc, tid,
                  GroundFound, now, antennaVars, nextId, cmds, auxVars >>

guarded_move_done_cb(success) ==
  /\ ~terminated
  /\ goal[Op_GuardedMove] = "active"
  /\ goal' = [ goal EXCEPT ![Op_GuardedMove] = "done" ]
  /\ GroundFound' = success
  /\ UNCHANGED << Running, events, initialized, terminated, pc, tid, now,
                  antennaVars, nextId, cmds, auxVars >>

(* ------------------------ telemetry callbacks ------------------------- *)

\* Mutant: the tolerance is exclusive.
within_tolerance_strict(val1, val2, tolerance) ==
  (IF val1 >= val2 THEN val1 - val2 ELSE val2 - val1) < tolerance

within_tolerance(val1, val2, tolerance) ==
  (IF val1 >= val2 THEN val1 - val2 ELSE val2 - val1) <= tolerance

\* The two antenna states of interest of managePanTilt.
Reached(current, goalAngle) ==
  within_tolerance(current, goalAngle, DegreeTolerance)

Expired(t, start) == t > start + PanTiltTimeout

\* Mutant: the two log statements are alternatives (else if).
CompletionLogsExclusive(reached, expired) ==
  IF expired THEN << Note("ERROR_timed_out") >>
  ELSE IF ~reached THEN << Note("ERROR_failed") >> ELSE << >>

\* Mutant: the timeout is logged only when the goal was reached.
CompletionLogsNoTimeoutOnFailure(reached, expired) ==
  IF ~reached THEN << Note("ERROR_failed") >>
  ELSE IF expired THEN << Note("ERROR_timed_out") >> ELSE << >>

\* The two log statements that follow mark_operation_finished in
\* managePanTilt, lines 341-345.
CompletionLogs(reached, expired) ==
  (IF expired THEN << Note("ERROR_timed_out") >> ELSE << >>)
  \o (IF ~reached THEN << Note("ERROR_failed") >> ELSE << >>)

\* managePanTilt (opname, position, velocity, current, goal, start) at time
\* t, on S = [R: the registry, ev: the events]; position and velocity are
\* not read.
managePanTilt(S, opname, current, goalAngle, start, t) ==
  IF ~operationRunning(S.R, opname) THEN S
  ELSE LET id == S.R[opname]
           reached == Reached(current, goalAngle)
           expired == Expired(t, start)
           f == mark_operation_finished(S.R, opname, id)
       IN IF reached \/ expired
          THEN [ R |-> f.R,
                 ev |-> [ S.ev EXCEPT ![opname] =
                            @ \o f.out \o CompletionLogs(reached, expired) ] ]
          ELSE S

\* The loop of jointStatesCallback over the first JointMap.size() entries of
\* the message, from entry i on.
RECURSIVE JointLoop(_, _, _, _)
JointLoop(S, batch, i, t) ==
  IF i > Len(JointMap) THEN S
  ELSE LET ros_name == batch[i]
           S1 == IF ros_name = "j_ant_pan"
                 THEN managePanTilt(S, Op_PanAntenna, m_currentPan,
                                    m_goalPan, m_panStart, t)
                 ELSE IF ros_name = "j_ant_tilt"
                 THEN managePanTilt(S, Op_TiltAntenna, m_currentTilt,
                                    m_goalTilt, m_tiltStart, t)
                 ELSE S
       IN JointLoop(S1, batch, i + 1, t)

jointStatesCallback(batch) ==
  LET S == JointLoop([ R |-> Running, ev |-> events ], batch, 1, now) IN
  /\ ~terminated
  /\ initialized
  /\ Running' = S.R
  /\ events' = S.ev
  /\ UNCHANGED << initialized, terminated, threadVars, now, antennaVars,
                  nextId, cmds, auxVars >>

\* panCallback / tiltCallback: the controller's set point, converted to
\* degrees, becomes the current angle.
panCallback(angle) ==
  /\ ~terminated
  /\ initialized
  /\ m_currentPan' = angle
  /\ UNCHANGED << Running, events, initialized, terminated, threadVars, now,
                  m_currentTilt, m_goalPan, m_goalTilt, m_panStart,
                  m_tiltStart, nextId, cmds, auxVars >>

tiltCallback(angle) ==
  /\ ~terminated
  /\ initialized
  /\ m_currentTilt' = angle
  /\ UNCHANGED << Running, events, initialized, terminated, threadVars, now,
                  m_currentPan, m_goalPan, m_goalTilt, m_panStart,
                  m_tiltStart, nextId, cmds, auxVars >>

\* Mutant: cameraCallback without the test of operationRunning.
cameraCallback_unguarded ==
  LET f == mark_operation_finished(Running, Op_TakePicture,
                                   Running[Op_TakePicture])
  IN
  /\ ~terminated
  /\ initialized
  /\ Running' = f.R
  /\ events' = [ events EXCEPT ![Op_TakePicture] = @ \o f.out ]
  /\ UNCHANGED << initialized, terminated, threadVars, now, antennaVars,
                  nextId, cmds, auxVars >>

cameraCallback ==
  LET f == mark_operation_finished(Running, Op_TakePicture,
                                   Running[Op_TakePicture])
  IN
  /\ ~terminated
  /\ initialized
  /\ IF operationRunning(Running, Op_TakePicture)
     THEN /\ Running' = f.R
          /\ events' = [ events EXCEPT ![Op_TakePicture] = @ \o f.out ]
     ELSE UNCHANGED << Running, events >>
  /\ UNCHANGED << initialized, terminated, threadVars, now, antennaVars,
                  nextId, cmds, auxVars >>

(* -------------------------------- time -------------------------------- *)

\* The clock is read when a pan or tilt command is issued (as the start
\* time) and by managePanTilt while the operation is Running, and only its
\* distance to the start time is used.  It is advanced while a pan or tilt
\* is Running, in steps of PanTiltTimeout: one step after the start the
\* operation is on the boundary (not expired), two steps after it is expired.
Tick ==
  /\ ~terminated
  /\ operationRunning(Running, Op_PanAntenna)
     \/ operationRunning(Running, Op_TiltAntenna)
  /\ now < MaxTicks * PanTiltTimeout
  /\ now' = now + PanTiltTimeout
  /\ UNCHANGED << Running, events, initialized, terminated, threadVars,
                  antennaVars, nextId, cmds, auxVars >>

(* --------------------------- specification ---------------------------- *)

Next ==
  \/ initialize
  \/ guardedMove(nextId)
  \/ digLinear(nextId)
  \/ deliver(nextId)
  \/ \E d \in GoalAngles : tiltAntenna(d, nextId)
  \/ \E d \in GoalAngles : panAntenna(d, nextId)
  \/ takePicture(nextId)
  \/ \E n \in RunActionOps : runActionSend(n)
  \/ \E n \in RunActionOps : runActionWait(n)
  \/ guardedMoveActionSend
  \/ guardedMoveActionWait
  \/ \E n \in RunActionOps : action_done_cb(n)
  \/ \E b \in BOOLEAN : guarded_move_done_cb(b)
  \/ \E batch \in Batches : jointStatesCallback(batch)
  \/ \E a \in SetPoints : panCallback(a)
  \/ \E a \in SetPoints : tiltCallback(a)
  \/ cameraCallback
  \/ Tick

Spec == Init /\ [][Next]_vars

\* SpecDispatch: the event-policy operations alone, with their action
\* threads and backend callbacks, under the scheduling the code relies on:
\* a started action thread runs, and waitForResult returns after at most
\* ActionTimeoutSecs.
NextDispatch ==
  \/ initialize
  \/ guardedMove(nextId)
  \/ digLinear(nextId)
  \/ deliver(nextId)
  \/ \E n \in RunActionOps : runActionSend(n)
  \/ \E n \in RunActionOps : runActionWait(n)
  \/ guardedMoveActionSend
  \/ guardedMoveActionWait
  \/ \E n \in RunActionOps : action_done_cb(n)
  \/ \E b \in BOOLEAN : guarded_move_done_cb(b)

SpecDispatch ==
  /\ Init
  /\ [][NextDispatch]_vars
  /\ \A n \in ActionOps : WF_vars(ActionSend(n)) /\ WF_vars(ActionWait(n))

(* ------------------ pan and tilt against their deadline --------------- *)

\* SpecPanTilt: the pan and tilt commands with the telemetry that completes
\* them, on an initialized interface.  calls keeps, for every command, the
\* time of the call and whether it was admitted.
TimedCall(name, id) ==
  [ name |-> name, id |-> id, fn |-> "admit", t |-> now,
    ok |-> mark_operation_running(Running, name, id).ok ]

panAntennaTimed(degrees, id) ==
  /\ CanIssue(id)
  /\ initialized
  /\ m_goalPan' = degrees
  /\ m_panStart' = now
  /\ antenna_op(Op_PanAntenna, id)
  /\ calls' = Append(calls, TimedCall(Op_PanAntenna, id))
  /\ UNCHANGED << initialized, threadVars, now, m_currentPan, m_currentTilt,
                  m_goalTilt, m_tiltStart, caller, trackerVars >>

tiltAntennaTimed(degrees, id) ==
  /\ CanIssue(id)
  /\ initialized
  /\ m_goalTilt' = degrees
  /\ m_tiltStart' = now
  /\ antenna_op(Op_TiltAntenna, id)
  /\ calls' = Append(calls, TimedCall(Op_TiltAntenna, id))
  /\ UNCHANGED << initialized, threadVars, now, m_currentPan, m_currentTilt,
                  m_goalPan, m_panStart, caller, trackerVars >>

NextPanTilt ==
  \/ initialize
  \/ \E d \in GoalAngles : panAntennaTimed(d, nextId)
  \/ \E d \in GoalAngles : tiltAntennaTimed(d, nextId)
  \/ \E batch \in Batches : jointStatesCallback(batch)
  \/ \E a \in SetPoints : panCallback(a)
  \/ \E a \in SetPoints : tiltCallback(a)
  \/ Tick

SpecPanTilt == Init /\ [][NextPanTilt]_vars

(* ------------------- the registry, called directly -------------------- *)

\* SpecRegistry applies mark_operation_running and mark_operation_finished
\* one call after another, over every argument value: the names below, the
\* ids 7, 8 and 9 and the sentinel IDLE_ID.
RegNames == { Op_DigLinear, Op_PanAntenna }
RegIds == { IDLE_ID, 7, 8, 9 }

RegAdmit(name, id) ==
  LET m == mark_operation_running(Running, name, id) IN
  /\ Len(calls) < MaxCalls
  /\ Running' = m.R
  /\ events' = [ events EXCEPT ![name] = @ \o m.out ]
  /\ calls' = Append(calls, [ fn |-> "admit", name |-> name, id |-> id,
                              ok |-> m.ok ])
  /\ UNCHANGED << initialized, terminated, threadVars, now, antennaVars,
                  nextId, cmds, caller, trackerVars >>

\* Completion is called with the id of the entry (as managePanTilt and
\* cameraCallback do) or with the sentinel.
RegComplete(name, id) ==
  LET f == mark_operation_finished(Running, name, id) IN
  /\ Len(calls) < MaxCalls
  /\ id \in { IDLE_ID, Running[name] }
  /\ Running' = f.R
  /\ events' = [ events EXCEPT ![name] = @ \o f.out ]
  /\ calls' = Append(calls, [ fn |-> "complete", name |-> name, id |-> id,
                              ok |-> TRUE ])
  /\ UNCHANGED << initialized, terminated, threadVars, now, antennaVars,
                  nextId, cmds, caller, trackerVars >>

\* A completion repeated: mark_operation_finished called once more with the
\* arguments of the call before it.
RegCompleteAgain(name) ==
  LET last == calls[Len(calls)]
      f == mark_operation_finished(Running, name, last.id)
  IN
  /\ Len(calls) < MaxCalls
  /\ Len(calls) > 0
  /\ last.fn = "complete" /\ last.name = name
  /\ Running' = f.R
  /\ events' = [ events EXCEPT ![name] = @ \o f.out ]
  /\ calls' = Append(calls, [ fn |-> "complete", name |-> name,
                              id |-> last.id, ok |-> TRUE ])
  /\ UNCHANGED << initialized, terminated, threadVars, now, antennaVars,
                  nextId, cmds, caller, trackerVars >>

NextRegistry ==
  \/ \E name \in RegNames, id \in RegIds : RegAdmit(name, id)
  \/ \E name \in RegNames, id \in RegIds : RegComplete(name, id)
  \/ \E name \in RegNames : RegCompleteAgain(name)

SpecRegistry == Init /\ [][NextRegistry]_vars

(* --------------- mark_operation_running, statement by statement -------- *)

\* SpecAdmitRace: callers on independent threads inside
\* mark_operation_running, interleaved between the test of line 109 and the
\* assignment of line 113.  Nothing in the function or around the Running
\* map excludes that interleaving.  Caller t passes the id t.
AdmitCall(t, name) ==
  /\ caller[t].pc = "idle"
  /\ caller' = [ caller EXCEPT ![t] = [ pc |-> "check", name |-> name,
                                        id |-> t, ret |-> FALSE ] ]
  /\ UNCHANGED << Running, events, initialized, terminated, threadVars, now,
                  antennaVars, nextId, cmds, calls, trackerVars >>

\* lines 109-112
AdmitCheck(t) ==
  LET name == caller[t].name IN
  /\ caller[t].pc = "check"
  /\ IF AlreadyRunning(Running, name)
     THEN /\ events' = [ events EXCEPT ![name] =
                           @ \o << Note("WARN_already_running") >> ]
          /\ caller' = [ caller EXCEPT ![t].pc = "returned" ]
     ELSE /\ caller' = [ caller EXCEPT ![t].pc = "write" ]
          /\ UNCHANGED events
  /\ UNCHANGED << Running, initialized, terminated, threadVars, now,
                  antennaVars, nextId, cmds, calls, trackerVars >>

\* lines 113-115
AdmitWrite(t) ==
  LET name == caller[t].name IN
  /\ caller[t].pc = "write"
  /\ Running' = [ Running EXCEPT ![name] = caller[t].id ]
  /\ events' = [ events EXCEPT ![name] = @ \o << publish("Running", TRUE) >> ]
  /\ caller' = [ caller EXCEPT ![t].pc = "returned", ![t].ret = TRUE ]
  /\ UNCHANGED << initialized, terminated, threadVars, now, antennaVars,
                  nextId, cmds, calls, trackerVars >>

NextAdmitRace ==
  \/ \E t \in 1..NumCallers, name \in LanderOpNames : AdmitCall(t, name)
  \/ \E t \in 1..NumCallers : AdmitCheck(t)
  \/ \E t \in 1..NumCallers : AdmitWrite(t)

SpecAdmitRace == Init /\ [][NextAdmitRace]_vars

(* --------------- mark_operation_finished, statement by statement -------- *)

\* SpecFinishRace: a completing thread (an action thread or a telemetry
\* callback) inside mark_operation_finished, while the plan executive calls
\* the entry points on its own thread.  Nothing in the function or around
\* the Running map keeps an admit from running between two of its
\* statements.  A completion is started for an operation that is Running,
\* with the id of its entry, by one thread at a time.
FinishCall(t, name) ==
  /\ caller[t].pc = "idle"
  /\ operationRunning(Running, name)
  /\ \A u \in 1..NumCallers : caller[u].pc = "idle" \/ caller[u].name # name
  /\ caller' = [ caller EXCEPT ![t] = [ pc |-> "reset", name |-> name,
                                        id |-> Running[name],
                                        ret |-> FALSE ] ]
  /\ UNCHANGED << Running, events, initialized, terminated, threadVars, now,
                  antennaVars, nextId, cmds, calls, trackerVars >>

\* lines 120-123
FinishReset(t) ==
  LET name == caller[t].name IN
  /\ caller[t].pc = "reset"
  /\ Running' = [ Running EXCEPT ![name] = IDLE_ID ]
  /\ events' = [ events EXCEPT ![name] =
                   @ \o (IF NotRunningCondition(Running[name])
                         THEN << Note("WARN_was_not_running") >> ELSE << >>) ]
  /\ caller' = [ caller EXCEPT ![t].pc = "publish" ]
  /\ UNCHANGED << initialized, terminated, threadVars, now, antennaVars,
                  nextId, cmds, calls, trackerVars >>

\* lines 124-125
FinishPublish(t) ==
  LET name == caller[t].name IN
  /\ caller[t].pc = "publish"
  /\ events' = [ events EXCEPT ![name] =
                   @ \o << publish("Running", FALSE),
                           publish("Finished", TRUE) >> ]
  /\ caller' = [ caller EXCEPT ![t].pc = "status" ]
  /\ UNCHANGED << Running, initialized, terminated, threadVars, now,
                  antennaVars, nextId, cmds, calls, trackerVars >>

\* line 126
FinishCallback(t) ==
  LET name == caller[t].name IN
  /\ caller[t].pc = "status"
  /\ events' = [ events EXCEPT ![name] = @ \o FinishStatus(caller[t].id) ]
  /\ caller' = [ caller EXCEPT ![t].pc = "idle" ]
  /\ UNCHANGED << Running, initialized, terminated, threadVars, now,
                  antennaVars, nextId, cmds, calls, trackerVars >>

\* The admits of the plan executive: ids 7, 8, 9, ... in the order of the
\* calls.
FinishRaceAdmit(name) == RegAdmit(name, 7 + Len(calls))

NextFinishRace ==
  \/ \E name \in RegNames : FinishRaceAdmit(name)
  \/ \E t \in 1..NumCallers, name \in RegNames : FinishCall(t, name)
  \/ \E t \in 1..NumCallers : FinishReset(t)
  \/ \E t \in 1..NumCallers : FinishPublish(t)
  \/ \E t \in 1..NumCallers : FinishCallback(t)

SpecFinishRace == Init /\ [][NextFinishRace]_vars

(* ---------------------------- fault tracker ---------------------------- *)

\* msg_val & value on unsigned integers.
RECURSIVE BitAnd(_, _)
BitAnd(a, b) ==
  IF a = 0 \/ b = 0 THEN 0
  ELSE (a % 2) * (b % 2) + 2 * BitAnd(a \div 2, b \div 2)

FaultLine(kind, fault_component, key) ==
  [ kind |-> kind, component |-> fault_component, key |-> key ]

\* Mutant: checkFaultMessages reports every matching bit, whatever the
\* stored flag (level-triggered).
checkFaultMessages_level(fault_component, msg_val, key, value, b) ==
  IF BitAnd(msg_val, value) = value
  THEN [ ret |-> ~b, out |-> << FaultLine("ERROR", fault_component, key) >> ]
  ELSE [ ret |-> b,
         out |-> IF b THEN << FaultLine("RESOLVED", fault_component, key) >>
                 ELSE << >> ]

\* Mutant: checkFaultMessages tests for any common bit instead of all bits
\* of the value.
checkFaultMessages_any_bit(fault_component, msg_val, key, value, b) ==
  IF ~b /\ BitAnd(msg_val, value) # 0
  THEN [ ret |-> TRUE, out |-> << FaultLine("ERROR", fault_component, key) >> ]
  ELSE IF b /\ BitAnd(msg_val, value) = 0
  THEN [ ret |-> TRUE,
         out |-> << FaultLine("RESOLVED", fault_component, key) >> ]
  ELSE [ ret |-> FALSE, out |-> << >> ]

\* checkFaultMessages (fault_component, msg_val, key, value, b): the return
\* value and the line it logs.
checkFaultMessages(fault_component, msg_val, key, value, b) ==
  IF ~b /\ BitAnd(msg_val, value) = value
  THEN [ ret |-> TRUE, out |-> << FaultLine("ERROR", fault_component, key) >> ]
  ELSE IF b /\ BitAnd(msg_val, value) # value
  THEN [ ret |-> TRUE,
         out |-> << FaultLine("RESOLVED", fault_component, key) >> ]
  ELSE [ ret |-> FALSE, out |-> << >> ]

\* The loop of a fault callback over the entries of its table, from entry i
\* on: F = [flags: the asserted flags of the domain, out: the lines logged].
RECURSIVE FaultLoop(_, _, _, _, _)
FaultLoop(F, fault_component, table, msg_val, i) ==
  IF i > Len(table) THEN F
  ELSE LET key == table[i].key
           b == F.flags[key]
           c == checkFaultMessages(fault_component, msg_val, key,
                                   table[i].value, b)
           F1 == [ flags |-> IF c.ret THEN [ F.flags EXCEPT ![key] = ~@ ]
                             ELSE F.flags,
                   out |-> F.out \o c.out ]
       IN FaultLoop(F1, fault_component, table, msg_val, i + 1)

\* What the four fault callbacks share: the subscriber exists, and the
\* message is recorded as the latest one.
FaultMessage(domain, msg_val) ==
  /\ ~terminated
  /\ initialized
  /\ snapshot.n < MaxSnapshots
  /\ snapshot' = [ domain |-> domain, value |-> msg_val,
                   n |-> snapshot.n + 1 ]
  /\ UNCHANGED << Running, events, initialized, terminated, threadVars, now,
                  antennaVars, nextId, cmds, caller, calls, torqueVars >>

systemFaultMessageCallback(msg_val) ==
  LET F == FaultLoop([ flags |-> systemErrors, out |-> << >> ], "SYSTEM",
                     SystemFaultTable, msg_val, 1)
  IN
  /\ FaultMessage("SYSTEM", msg_val)
  /\ systemErrors' = F.flags
  /\ rosout' = rosout \o F.out
  /\ UNCHANGED << armErrors, powerErrors, ptErrors >>

armFaultCallback(msg_val) ==
  LET F == FaultLoop([ flags |-> armErrors, out |-> << >> ], "ARM",
                     ArmFaultTable, msg_val, 1)
  IN
  /\ FaultMessage("ARM", msg_val)
  /\ armErrors' = F.flags
  /\ rosout' = rosout \o F.out
  /\ UNCHANGED << systemErrors, powerErrors, ptErrors >>

\* Mutant: the power callback also writes the flag of the same fault name
\* in the antenna table.
powerFaultCallback_shared_names(msg_val) ==
  LET F == FaultLoop([ flags |-> powerErrors, out |-> << >> ], "POWER",
                     PowerFaultTable, msg_val, 1)
  IN
  /\ FaultMessage("POWER", msg_val)
  /\ powerErrors' = F.flags
  /\ ptErrors' = [ k \in DOMAIN ptErrors |->
                     IF k \in DOMAIN F.flags THEN F.flags[k] ELSE ptErrors[k] ]
  /\ rosout' = rosout \o F.out
  /\ UNCHANGED << systemErrors, armErrors >>

powerFaultCallback(msg_val) ==
  LET F == FaultLoop([ flags |-> powerErrors, out |-> << >> ], "POWER",
                     PowerFaultTable, msg_val, 1)
  IN
  /\ FaultMessage("POWER", msg_val)
  /\ powerErrors' = F.flags
  /\ rosout' = rosout \o F.out
  /\ UNCHANGED << systemErrors, armErrors, ptErrors >>

antennaFaultCallback(msg_val) ==
  LET F == FaultLoop([ flags |-> ptErrors, out |-> << >> ], "ANTENNA",
                     PTFaultTable, msg_val, 1)
  IN
  /\ FaultMessage("ANTENNA", msg_val)
  /\ ptErrors' = F.flags
  /\ rosout' = rosout \o F.out
  /\ UNCHANGED << systemErrors, armErrors, powerErrors >>

\* The pan command a plan issues while fault messages arrive.
FaultsPanAntenna ==
  /\ initialized
  /\ nextId = 0
  /\ \E d \in GoalAngles : panAntenna(d, nextId)

\* SpecFaults: the four fault callbacks, beside one pan command that leaves
\* a registry entry Running.
NextFaults ==
  \/ initialize
  \/ FaultsPanAntenna
  \/ \E v \in FaultMasks : systemFaultMessageCallback(v)
  \/ \E v \in FaultMasks : armFaultCallback(v)
  \/ \E v \in FaultMasks : powerFaultCallback(v)
  \/ \E v \in FaultMasks : antennaFaultCallback(v)

SpecFaults == Init /\ [][NextFaults]_vars

(* ------------------------------- torque -------------------------------- *)

Abs(x) == IF x >= 0 THEN x ELSE 0 - x

\* Mutant: entering the hard-limit set leaves the soft-limit set.
handle_overtorque_exclusive(T, joint, effort) ==
  LET joint_name == JointPropMap[joint].plexilName IN
  IF Abs(effort) >= JointPropMap[joint].hardTorqueLimit
  THEN [ T EXCEPT !.hard = @ \cup { joint_name },
                  !.soft = @ \ { joint_name } ]
  ELSE IF Abs(effort) >= JointPropMap[joint].softTorqueLimit
  THEN [ T EXCEPT !.soft = @ \cup { joint_name } ]
  ELSE [ T EXCEPT !.hard = @ \ { joint_name }, !.soft = @ \ { joint_name } ]

\* handle_overtorque (joint, effort) on T = [hard, soft: the two sets,
\* tele: the telemetry map].
handle_overtorque(T, joint, effort) ==
  LET joint_name == JointPropMap[joint].plexilName IN
  IF Abs(effort) >= JointPropMap[joint].hardTorqueLimit
  THEN [ T EXCEPT !.hard = @ \cup { joint_name } ]
  ELSE IF Abs(effort) >= JointPropMap[joint].softTorqueLimit
  THEN [ T EXCEPT !.soft = @ \cup { joint_name } ]
  ELSE [ T EXCEPT !.hard = @ \ { joint_name }, !.soft = @ \ { joint_name } ]

\* handle_joint_fault: the only fault is overtorque.
handle_joint_fault(T, joint, effort) == handle_overtorque(T, joint, effort)

\* The telemetry and torque part of the loop of jointStatesCallback, from
\* entry i of the message on.  An entry whose name is not in JointMap is
\* logged and skipped.
RECURSIVE TelemetryLoop(_, _, _)
TelemetryLoop(T, msg, i) ==
  IF i > Len(JointMap) THEN T
  ELSE LET ros_name == msg.name[i]
           effort == msg.effort[i]
           T1 == IF ros_name \in DOMAIN JointPropMap
                 THEN handle_joint_fault(
                        [ T EXCEPT !.tele =
                            [ j \in DOMAIN T.tele \cup { ros_name } |->
                                IF j = ros_name THEN effort ELSE T.tele[j] ] ],
                        ros_name, effort)
                 ELSE T
       IN TelemetryLoop(T1, msg, i + 1)

\* A joint-state message with the catalog joints in the order of JointMap,
\* the given efforts for the shoulder yaw and the antenna pan joint and
\* effort 0 for the others.
EffortMessage(shou, pan) ==
  [ name |-> JointMap,
    effort |-> [ i \in DOMAIN JointMap |->
                   IF JointMap[i] = "j_shou_yaw" THEN shou
                   ELSE IF JointMap[i] = "j_ant_pan" THEN pan ELSE 0 ] ]

\* jointStatesCallback while no pan and no tilt is Running, so that both
\* calls of managePanTilt return at their first statement: the telemetry
\* map and the torque-limit sets are updated.
jointStatesEfforts(shou, pan) ==
  LET T == TelemetryLoop([ hard |-> JointsAtHardTorqueLimit,
                           soft |-> JointsAtSoftTorqueLimit,
                           tele |-> JointTelemetryMap ],
                         EffortMessage(shou, pan), 1)
  IN
  /\ ~terminated
  /\ initialized
  /\ ~operationRunning(Running, Op_PanAntenna)
  /\ ~operationRunning(Running, Op_TiltAntenna)
  /\ Len(samples) < MaxSamples
  /\ JointsAtHardTorqueLimit' = T.hard
  /\ JointsAtSoftTorqueLimit' = T.soft
  /\ JointTelemetryMap' = T.tele
  /\ samples' = Append(samples, [ shou |-> shou, pan |-> pan ])
  /\ UNCHANGED << Running, events, initialized, terminated, threadVars, now,
                  antennaVars, nextId, cmds, caller, calls, faultVars,
                  rosout >>

hardTorqueLimitReached(joint_name) == joint_name \in JointsAtHardTorqueLimit

softTorqueLimitReached(joint_name) == joint_name \in JointsAtSoftTorqueLimit

NextTorque ==
  \/ initialize
  \/ \E shou \in ShoulderEfforts, pan \in PanEfforts :
       jointStatesEfforts(shou, pan)

SpecTorque == Init /\ [][NextTorque]_vars

(* ------------------- joint-state messages of any length ---------------- *)

\* The entries the loop of jointStatesCallback reads from a message: the
\* first JointMap.size() ones, those beyond the end of the message being
\* what the out-of-range read yields.
EntriesRead(msg, oob) ==
  [ name |-> [ i \in DOMAIN JointMap |->
                 IF i <= Len(msg.name) THEN msg.name[i] ELSE oob.name ],
    effort |-> [ i \in DOMAIN JointMap |->
                   IF i <= Len(msg.name) THEN msg.effort[i] ELSE oob.effort ] ]

\* The error lines of the loop, line 320.
UnsupportedJointLines(read) ==
  LET unknown == SelectSeq(read.name, LAMBDA n : n \notin DOMAIN JointPropMap)
  IN [ i \in DOMAIN unknown |->
         FaultLine("ERROR_unsupported_joint", "jointStatesCallback",
                   unknown[i]) ]

\* jointStatesCallback on a message of any length, while no pan and no tilt
\* is Running.  When the message is shorter than JointMap the loop reads
\* beyond its end.
jointStatesBatch(msg, oob) ==
  LET short == Len(msg.name) < Len(JointMap)
      read == EntriesRead(msg, IF short /\ oob.crash
                               THEN [ oob EXCEPT !.name = "j_unknown" ]
                               ELSE oob)
      T == TelemetryLoop([ hard |-> JointsAtHardTorqueLimit,
                           soft |-> JointsAtSoftTorqueLimit,
                           tele |-> JointTelemetryMap ], read, 1)
  IN
  /\ ~terminated
  /\ initialized
  /\ ~operationRunning(Running, Op_PanAntenna)
  /\ ~operationRunning(Running, Op_TiltAntenna)
  /\ Len(samples) < MaxSamples
  /\ JointsAtHardTorqueLimit' = T.hard
  /\ JointsAtSoftTorqueLimit' = T.soft
  /\ JointTelemetryMap' = T.tele
  /\ terminated' = (short /\ oob.crash)
  /\ rosout' = rosout \o UnsupportedJointLines(
                  IF short /\ oob.crash THEN msg ELSE read)
  /\ samples' = Append(samples, msg)
  /\ UNCHANGED << Running, events, initialized, threadVars, now,
                  antennaVars, nextId, cmds, caller, calls, faultVars >>

NextBatch ==
  \/ initialize
  \/ \E msg \in BatchMessages, oob \in OutOfRangeReads :
       jointStatesBatch(msg, oob)

SpecBatch == Init /\ [][NextBatch]_vars

(* ------------------------------- queries ------------------------------- *)

\* Mutant: running answers true for a name outside the catalog.
running_ret_unsupported_true(R, name) ==
  IF is_lander_operation(name) THEN operationRunning(R, name) ELSE TRUE

\* The return value of running (name).
running_ret(R, name) ==
  IF is_lander_operation(name) THEN operationRunning(R, name) ELSE FALSE

\* running (name): the answer is recorded in the call history; a name
\* outside the catalog is logged.
running(name) ==
  /\ Len(calls) < MaxQueries
  /\ calls' = Append(calls, [ fn |-> "running", name |-> name,
                              id |-> IDLE_ID,
                              ok |-> running_ret(Running, name) ])
  /\ rosout' = IF is_lander_operation(name) THEN rosout
               ELSE Append(rosout,
                           FaultLine("ERROR_unsupported_operation",
                                     "running", name))
  /\ UNCHANGED << Running, events, initialized, terminated, threadVars, now,
                  antennaVars, nextId, cmds, caller, faultVars, torqueVars >>

\* The registry calls made beside the queries: DigLinear is admitted and
\* completed.
QueryAdmit(id) == Len(calls) < MaxQueries /\ RegAdmit(Op_DigLinear, id)
QueryComplete ==
  /\ Len(calls) < MaxQueries
  /\ RegComplete(Op_DigLinear, Running[Op_DigLinear])

NextQuery ==
  \/ \E id \in { 7, 8 } : QueryAdmit(id)
  \/ QueryComplete
  \/ \E name \in QueryNames : running(name)

SpecQuery == Init /\ [][NextQuery]_vars

(* ------------------------------ history ------------------------------- *)

CountEv(seq, e) == Cardinality({ i \in DOMAIN seq : seq[i] = e })

\* The positions of all events, as pairs of operation name and index.
EventPositions ==
  UNION { { << n, i >> : i \in DOMAIN events[n] } : n \in LanderOpNames }

\* Number of status callbacks invoked with the given command id.
StatusCount(id) ==
  Cardinality({ p \in EventPositions :
                  /\ events[p[1]][p[2]].kind = "Status"
                  /\ events[p[1]][p[2]].id = id })

\* Commands of the plan executive admitted / rejected for an operation.
AdmittedCmds(name) ==
  { i \in DOMAIN cmds : cmds[i].name = name /\ cmds[i].ok }
RejectedCmds(name) ==
  { i \in DOMAIN cmds : cmds[i].name = name /\ ~cmds[i].ok }

\* Completions of an operation: the "Finished" notifications published.
Completions(name) == CountEv(events[name], publish("Finished", TRUE))

\* Admitted and not yet completed commands of an operation.
InFlight(name) == Cardinality(AdmittedCmds(name)) - Completions(name)

(* ------------------------------- claims ------------------------------- *)

\* C1: an entry-point call for an operation whose registry entry is not
\* IDLE_ID is rejected (mark_operation_running returns false), leaves the
\* whole registry as it was - so the first command id stays - and emits
\* nothing but the warning: no "Running = true" notification.
C1_DuplicateAdmitRejected ==
  [][ Len(cmds') = Len(cmds) + 1 =>
        LET c == cmds'[Len(cmds')] IN
          Running[c.name] # IDLE_ID =>
            /\ ~c.ok
            /\ Running' = Running
            /\ events' = [ events EXCEPT ![c.name] =
                             Append(@, Note("WARN_already_running")) ]
    ]_vars

\* C1 witness: a command was rejected while an earlier command's id is in
\* the registry.
C1_Witness ==
  \E i \in DOMAIN cmds :
    /\ ~cmds[i].ok
    /\ Running[cmds[i].name] \notin { IDLE_ID, cmds[i].id }
    /\ CountEv(events[cmds[i].name], publish("Running", TRUE)) = 1

\* C2: of the callers of mark_operation_running for one Idle operation name
\* that interleave between the test and the assignment, at most one returns
\* true (no completion happens in SpecAdmitRace).
C2_OneAdmitSucceeds ==
  \A t1, t2 \in 1..NumCallers :
    ( /\ caller[t1].pc = "returned" /\ caller[t1].ret
      /\ caller[t2].pc = "returned" /\ caller[t2].ret
      /\ caller[t1].name = caller[t2].name ) => t1 = t2

ThreadReturned(i) ==
  /\ cmds[i].name \in ActionOps
  /\ pc[cmds[i].name] = "none" \/ tid[cmds[i].name] # cmds[i].id

\* C4: every admitted command id is reported by at most one status
\* callback, and by exactly one once the action thread that was started for
\* it has returned.
C4_OneStatusPerAdmitted ==
  \A i \in DOMAIN cmds :
    cmds[i].ok =>
      /\ StatusCount(cmds[i].id) <= 1
      /\ ThreadReturned(i) => StatusCount(cmds[i].id) = 1

\* C5: mark_operation_finished (name, id) on an entry that is not IDLE_ID
\* sets it to IDLE_ID and emits exactly "Running = false", "Finished =
\* true" and then, iff id is not IDLE_ID, the status callback (id, true);
\* and the mark_operation_running that follows a completion of the same
\* name returns true and stores its id.
C5_CompleteThenAdmit ==
  [][ Len(calls') = Len(calls) + 1 =>
        LET c == calls'[Len(calls')] IN
          /\ (c.fn = "complete" /\ Running[c.name] # IDLE_ID) =>
               /\ Running'[c.name] = IDLE_ID
               /\ events'[c.name] =
                    events[c.name]
                    \o << publish("Running", FALSE), publish("Finished", TRUE) >>
                    \o (IF c.id # IDLE_ID THEN << Status(c.id, TRUE) >>
                        ELSE << >>)
          /\ ( /\ c.fn = "admit"
               /\ Len(calls) > 0
               /\ calls[Len(calls)].fn = "complete"
               /\ calls[Len(calls)].name = c.name ) =>
               /\ c.ok
               /\ Running'[c.name] = c.id
    ]_vars

\* C5 witness: admit 7, admit 8 rejected, complete 7, admit 9 accepted.
C5_Witness ==
  /\ calls = << [ fn |-> "admit", name |-> Op_DigLinear, id |-> 7, ok |-> TRUE ],
                [ fn |-> "admit", name |-> Op_DigLinear, id |-> 8, ok |-> FALSE ],
                [ fn |-> "complete", name |-> Op_DigLinear, id |-> 7, ok |-> TRUE ],
                [ fn |-> "admit", name |-> Op_DigLinear, id |-> 9, ok |-> TRUE ] >>
  /\ Running[Op_DigLinear] = 9
  /\ events[Op_DigLinear] =
       << publish("Running", TRUE), Note("WARN_already_running"),
          publish("Running", FALSE), publish("Finished", TRUE),
          Status(7, TRUE), publish("Running", TRUE) >>

\* C6: every status callback invoked carries success = true.
C6_StatusAlwaysSuccess ==
  \A p \in EventPositions :
    events[p[1]][p[2]].kind = "Status" => events[p[1]][p[2]].b = TRUE

\* C6 witness: a pan that ended by expiry alone (timed out and failed) and
\* an action that ended by the dispatcher's timeout have both been reported.
C6_Witness ==
  \/ /\ CountEv(events[Op_PanAntenna], Note("ERROR_timed_out")) = 1
     /\ CountEv(events[Op_PanAntenna], Note("ERROR_failed")) = 1
     /\ \E id \in 0..MaxCmds : CountEv(events[Op_PanAntenna], Status(id, TRUE)) = 1
     /\ \E n \in ActionOps :
          /\ CountEv(events[n], Note("WARN_timeout")) = 1
          /\ \E id \in 0..MaxCmds : CountEv(events[n], Status(id, TRUE)) = 1

\* The admissions and completions of an operation, in the order in which
\* they were notified.
Marks(name) ==
  SelectSeq(events[name],
            LAMBDA e : e = publish("Running", TRUE)
                       \/ e = publish("Finished", TRUE))

C8_WaitThenCompleteOnce ==
  /\ [](\A name \in ActionOps :
          pc[name] = "waiting" =>
            /\ ClientPresent
            /\ Running[name] = tid[name]
            /\ Running[name] # IDLE_ID
            /\ StatusCount(tid[name]) = 0)
  /\ [][ \A name \in ActionOps :
           (pc[name] = "waiting" /\ pc'[name] # "waiting") =>
             /\ Running'[name] = IDLE_ID
             /\ Completions(name)' = Completions(name) + 1
             /\ StatusCount(tid[name])' = 1
       ]_vars
  /\ \A name \in ActionOps :
       (pc[name] = "waiting") ~> (Running[name] = IDLE_ID)

\* C8 witness: an operation was completed by the timeout, its done callback
\* never having fired.
C8_Witness ==
  \E name \in ActionOps :
    /\ goal[name] = "active"
    /\ pc[name] = "none"
    /\ Running[name] = IDLE_ID
    /\ CountEv(events[name], Note("WARN_timeout")) = 1
    /\ StatusCount(tid[name]) = 1

\* C9: once an action thread has found its client null, the operation
\* keeps the id it was admitted with in the registry, has not been
\* completed and no status callback has been invoked for it - in every
\* later state.
C9_NullClientLeavesRunning ==
  \A name \in ActionOps :
    CountEv(events[name], Note("ERROR_client_null")) > 0 =>
      /\ Running[name] = tid[name]
      /\ Running[name] # IDLE_ID
      /\ InFlight(name) = 1
      /\ StatusCount(tid[name]) = 0

\* C9 witness: an action thread has found its client null.
C9_Witness ==
  \E name \in ActionOps :
    /\ CountEv(events[name], Note("ERROR_client_null")) = 1
    /\ pc[name] = "none"

\* The events an entry point emits after a successful admit.
DispatchKinds ==
  { "Running", "action_thread", "fault_thread_detach", "fault_thread_start",
    "sendGoal", "publish_command", "Status" }

\* C10: a rejected command starts no action thread and no fault thread,
\* sends and publishes nothing, and its id is never passed to the status
\* callback.
C10_DuplicateDropped ==
  /\ [](\A i \in DOMAIN cmds : ~cmds[i].ok => StatusCount(cmds[i].id) = 0)
  /\ [][ Len(cmds') = Len(cmds) + 1 =>
           LET c == cmds'[Len(cmds')] IN
             ~c.ok =>
               /\ UNCHANGED << pc, tid, goal, terminated >>
               /\ \A i \in DOMAIN events'[c.name] :
                    i > Len(events[c.name]) =>
                      events'[c.name][i].kind \notin DispatchKinds
       ]_vars

\* C10 witness: a pan command was rejected while a pan was Running.
C10_Witness ==
  /\ RejectedCmds(Op_PanAntenna) # { }
  /\ Running[Op_PanAntenna] # IDLE_ID

(* --------------------- claims on the sample policy --------------------- *)

PanTiltOps == { Op_PanAntenna, Op_TiltAntenna }

\* The arguments current, goal and start that jointStatesCallback passes to
\* managePanTilt for an operation.
PanTiltArgs(op) ==
  IF op = Op_PanAntenna
  THEN [ current |-> m_currentPan, goalAngle |-> m_goalPan,
         start |-> m_panStart ]
  ELSE [ current |-> m_currentTilt, goalAngle |-> m_goalTilt,
         start |-> m_tiltStart ]

\* A step completes a pan or tilt: only managePanTilt does.
SampleCompletes(op) == Running[op] # IDLE_ID /\ Running'[op] = IDLE_ID

\* The error lines a step appends to the events of an operation.
NewLogs(op) ==
  SelectSeq(SubSeq(events'[op], Len(events[op]) + 1, Len(events'[op])),
            LAMBDA e : e.kind \in { "ERROR_timed_out", "ERROR_failed" })

\* Number of status callbacks invoked with the given command id, after the
\* step.
StatusCountNext(id) ==
  Cardinality({ p \in EventPositions' :
                  /\ events'[p[1]][p[2]].kind = "Status"
                  /\ events'[p[1]][p[2]].id = id })

\* C11: the sample policy is idempotent.  A joint-state batch applied to
\* the outcome of the same batch changes nothing, and leaves the registry
\* entry and the events of a pan/tilt that is not Running as they are; no
\* step other than an entry-point call changes the entry or the events of
\* a pan/tilt that is not Running; and the sample that completes a Running
\* pan/tilt completes it once and invokes the status callback for its id
\* for the first and only time.
C11_SampleIdempotent ==
  /\ [](\A batch \in Batches :
          LET S  == [ R |-> Running, ev |-> events ]
              S1 == JointLoop(S, batch, 1, now)
          IN /\ JointLoop(S1, batch, 1, now) = S1
             /\ \A op \in PanTiltOps :
                  Running[op] = IDLE_ID =>
                    S1.R[op] = IDLE_ID /\ S1.ev[op] = events[op])
  /\ [][ \A op \in PanTiltOps :
           /\ (Running[op] = IDLE_ID /\ cmds' = cmds) =>
                Running'[op] = IDLE_ID /\ events'[op] = events[op]
           /\ SampleCompletes(op) =>
                /\ Completions(op)' = Completions(op) + 1
                /\ StatusCount(Running[op]) = 0
                /\ StatusCountNext(Running[op]) = 1
       ]_vars

\* C11 witness: a pan was completed by a sample within the tolerance of its
\* goal and reported once, and the antenna is still within the tolerance,
\* so that every further sample satisfies reached.
C11_Witness ==
  /\ initialized /\ ~terminated
  /\ Running[Op_PanAntenna] = IDLE_ID
  /\ Completions(Op_PanAntenna) = 1
  /\ CountEv(events[Op_PanAntenna], Note("ERROR_failed")) = 0
  /\ Reached(m_currentPan, m_goalPan)
  /\ \E i \in AdmittedCmds(Op_PanAntenna) : StatusCount(cmds[i].id) = 1

\* C12: a pan/tilt completed by a sample with reached and not expired logs
\* neither the timeout nor the failure; one completed by a sample with
\* expired and not reached logs the timeout and the failure.
C12_CompletionLogging ==
  [][ \A op \in PanTiltOps :
        SampleCompletes(op) =>
          LET a == PanTiltArgs(op)
              reached == Abs(a.current - a.goalAngle) <= DegreeTolerance
              expired == now > a.start + PanTiltTimeout
          IN /\ (reached /\ ~expired) => NewLogs(op) = << >>
             /\ (expired /\ ~reached) =>
                  NewLogs(op) = << Note("ERROR_timed_out"),
                                   Note("ERROR_failed") >>
    ]_vars

\* C12 witness: a pan was completed by expiry alone, with both lines
\* logged, and a tilt was completed within the tolerance with none.
C12_Witness ==
  /\ Completions(Op_PanAntenna) = 1
  /\ CountEv(events[Op_PanAntenna], Note("ERROR_timed_out")) = 1
  /\ CountEv(events[Op_PanAntenna], Note("ERROR_failed")) = 1
  /\ Completions(Op_TiltAntenna) = 1
  /\ CountEv(events[Op_TiltAntenna], Note("ERROR_timed_out")) = 0
  /\ CountEv(events[Op_TiltAntenna], Note("ERROR_failed")) = 0

\* C13 as stated: every completion by the sample policy logs exactly one
\* of the two lines.
C13_ExactlyOneLogBranch ==
  [][ \A op \in PanTiltOps : SampleCompletes(op) => Len(NewLogs(op)) = 1
    ]_vars

\* C13 amended: on every completion by the sample policy the timeout line
\* is logged exactly when expired and the failure line exactly when not
\* reached, each evaluated once on entry; so the lines logged are none
\* (reached in time), the timeout alone (reached, but after the timeout)
\* or the timeout followed by the failure (expiry alone), and never the
\* failure alone.
C13_LogBranchesIndependent ==
  [][ \A op \in PanTiltOps :
        SampleCompletes(op) =>
          LET a == PanTiltArgs(op)
              reached == Abs(a.current - a.goalAngle) <= DegreeTolerance
              expired == now > a.start + PanTiltTimeout
          IN /\ reached \/ expired
             /\ NewLogs(op) =
                  (IF expired THEN << Note("ERROR_timed_out") >> ELSE << >>)
                  \o (IF reached THEN << >> ELSE << Note("ERROR_failed") >>)
             /\ NewLogs(op) # << Note("ERROR_failed") >>
    ]_vars

\* C13 witness: a tilt was completed by expiry alone and both lines were
\* logged for that one completion.
C13_Witness ==
  /\ Completions(Op_TiltAntenna) = 1
  /\ CountEv(events[Op_TiltAntenna], Note("ERROR_timed_out")) = 1
  /\ CountEv(events[Op_TiltAntenna], Note("ERROR_failed")) = 1

(* --------------------- claims on the fault tracker --------------------- *)

FaultDomains == { "SYSTEM", "ARM", "POWER", "ANTENNA" }

DomainTable(d) ==
  CASE d = "SYSTEM"  -> SystemFaultTable
    [] d = "ARM"     -> ArmFaultTable
    [] d = "POWER"   -> PowerFaultTable
    [] d = "ANTENNA" -> PTFaultTable

DomainFlags(d) ==
  CASE d = "SYSTEM"  -> systemErrors
    [] d = "ARM"     -> armErrors
    [] d = "POWER"   -> powerErrors
    [] d = "ANTENNA" -> ptErrors

\* The test of a fault's bit value against a bitmask.
BitTest(bitmask, value) == BitAnd(bitmask, value) = value

\* A step delivers a fault message.
FaultDelivered == snapshot'.n = snapshot.n + 1

\* The faults of a domain whose test against the bitmask differs from the
\* stored flag, in table order.
Edges(d, bitmask) ==
  SelectSeq(DomainTable(d),
            LAMBDA f : DomainFlags(d)[f.key] # BitTest(bitmask, f.value))

\* The lines logged for one fault.
LinesOf(d, key) ==
  SelectSeq(rosout, LAMBDA l : l.component = d /\ l.key = key)

\* C14: a fault message logs one line for each fault of its domain whose
\* bit test differs from the stored flag - an error line when the test is
\* true, a resolution line when it is false - and no other line; a message
\* that repeats the one before it logs nothing; and the lines of every
\* fault alternate between error and resolution, beginning with an error.
C14_EdgeTriggered ==
  /\ [][ FaultDelivered =>
           LET d == snapshot'.domain
               v == snapshot'.value
               e == Edges(d, v)
           IN /\ rosout' = rosout \o
                   [ i \in 1..Len(e) |->
                       FaultLine(IF BitTest(v, e[i].value) THEN "ERROR"
                                 ELSE "RESOLVED", d, e[i].key) ]
              /\ (snapshot.domain = d /\ snapshot.value = v) =>
                   rosout' = rosout
       ]_vars
  /\ [](\A d \in FaultDomains : \A i \in DOMAIN DomainTable(d) :
          LET l == LinesOf(d, DomainTable(d)[i].key) IN
            \A j \in DOMAIN l :
              l[j].kind = IF j % 2 = 1 THEN "ERROR" ELSE "RESOLVED")

\* C14 witness: the power domain received the alternating bitmasks 1, 0,
\* 1, 0 and nothing else was delivered: four lines were logged.
C14_Witness ==
  /\ snapshot = [ domain |-> "POWER", value |-> 0, n |-> 4 ]
  /\ rosout = << FaultLine("ERROR", "POWER", "HARDWARE_ERROR"),
                 FaultLine("RESOLVED", "POWER", "HARDWARE_ERROR"),
                 FaultLine("ERROR", "POWER", "HARDWARE_ERROR"),
                 FaultLine("RESOLVED", "POWER", "HARDWARE_ERROR") >>

\* C15: once the callback for the latest fault message has returned, every
\* fault of its domain is asserted exactly when the bit test of its value
\* against that bitmask is true.
C15_AssertedReflectsLatest ==
  snapshot.domain \in FaultDomains =>
    \A i \in DOMAIN DomainTable(snapshot.domain) :
      LET f == DomainTable(snapshot.domain)[i] IN
        DomainFlags(snapshot.domain)[f.key]
          = ( /\ (f.value % 2 = 1 => snapshot.value % 2 = 1)
              /\ (f.value \div 2 = 1 => snapshot.value \div 2 = 1) )

\* C15 witness: the arm domain received a bitmask with one of the two bits
\* of COLLISION_ERROR after one with both: the fault was resolved, while
\* the single-bit fault HARDWARE_ERROR stays asserted.
C15_Witness ==
  /\ snapshot.domain = "ARM" /\ snapshot.value = 1
  /\ armErrors["HARDWARE_ERROR"]
  /\ ~armErrors["COLLISION_ERROR"]
  /\ LinesOf("ARM", "COLLISION_ERROR")
       = << FaultLine("ERROR", "ARM", "COLLISION_ERROR"),
            FaultLine("RESOLVED", "ARM", "COLLISION_ERROR") >>

\* C16: a fault message delivered to one domain leaves the flags of every
\* other domain, the registry and the events of the operations unchanged.
C16_DomainsIndependent ==
  [][ FaultDelivered =>
        /\ \A d \in FaultDomains \ { snapshot'.domain } :
             DomainFlags(d)' = DomainFlags(d)
        /\ UNCHANGED << Running, events >>
    ]_vars

\* C16 witness: while a pan is Running, HARDWARE_ERROR is asserted in the
\* power domain and not in the arm and antenna domains, which have a fault
\* of the same name, and the antenna domain has received a message since.
C16_Witness ==
  /\ Running[Op_PanAntenna] # IDLE_ID
  /\ powerErrors["HARDWARE_ERROR"]
  /\ ~ptErrors["HARDWARE_ERROR"] /\ ptErrors["JOINT_LIMIT_ERROR"]
  /\ ~armErrors["HARDWARE_ERROR"]
  /\ snapshot.domain = "ANTENNA"

(* ---------------------- claims on the torque limits --------------------- *)

\* A step delivers a joint-state message.
SampleDelivered == Len(samples') = Len(samples) + 1

\* The shoulder yaw efforts delivered so far.
ShoulderHistory == [ i \in DOMAIN samples |-> samples[i].shou ]

\* C17: for every joint, an effort at or above its soft limit and below its
\* hard limit puts a joint that was in neither set into the soft-limit set
\* only; an effort at or above the hard limit puts a joint that was in the
\* soft-limit set only into the hard-limit set and keeps it in the
\* soft-limit set; an effort below the soft limit takes the joint out of
\* both sets.
C17_TorqueMembershipSequence ==
  [][ SampleDelivered =>
        \A j \in DOMAIN JointPropMap :
          LET n == JointPropMap[j].plexilName
              soft == JointPropMap[j].softTorqueLimit
              hard == JointPropMap[j].hardTorqueLimit
              e == JointTelemetryMap'[j]
              mag == IF e < 0 THEN 0 - e ELSE e
          IN /\ ( /\ soft <= mag /\ mag < hard
                  /\ ~softTorqueLimitReached(n)
                  /\ ~hardTorqueLimitReached(n) ) =>
                  softTorqueLimitReached(n)' /\ ~hardTorqueLimitReached(n)'
             /\ ( /\ mag >= hard
                  /\ softTorqueLimitReached(n)
                  /\ ~hardTorqueLimitReached(n) ) =>
                  hardTorqueLimitReached(n)' /\ softTorqueLimitReached(n)'
             /\ mag < soft =>
                  ~softTorqueLimitReached(n)' /\ ~hardTorqueLimitReached(n)'
    ]_vars

\* C17 witness: the shoulder yaw joint (limits 60 / 80) reported the
\* efforts 65, 80 and 10, and is in neither set.
C17_Witness ==
  /\ ShoulderHistory = << 65, 80, 10 >>
  /\ ~softTorqueLimitReached("ShoulderYaw")
  /\ ~hardTorqueLimitReached("ShoulderYaw")

\* C18: the membership of a joint in the two sets depends on its latest
\* effort alone; so it is the membership that this effort yields as the
\* only sample of the joint.
C18_MembershipFromLatestEffort ==
  \A j \in DOMAIN JointTelemetryMap :
    LET n == JointPropMap[j].plexilName
        T == handle_overtorque([ hard |-> { }, soft |-> { } ], j,
                               JointTelemetryMap[j])
    IN /\ hardTorqueLimitReached(n) = (n \in T.hard)
       /\ softTorqueLimitReached(n) = (n \in T.soft)

(* ------------------------ claims on the queries ------------------------ *)

\* C19: running (name) returns true exactly when name is in the catalog
\* and its registry entry is not IDLE_ID - so false for a name outside the
\* catalog - and leaves the registry, the events of the operations, the
\* pan/tilt tracking state and the action threads unchanged.
C19_RunningObservesOnly ==
  [][ ( /\ Len(calls') = Len(calls) + 1
        /\ calls'[Len(calls')].fn = "running" ) =>
        LET c == calls'[Len(calls')] IN
          /\ c.ok = ( /\ c.name \in LanderOpNames
                      /\ Running[c.name] # IDLE_ID )
          /\ UNCHANGED << Running, events, antennaVars, threadVars >>
    ]_vars

\* C19 witness: running was asked about a Running operation, an Idle one
\* and a name outside the catalog, and answered true, false and false.
C19_Witness ==
  /\ Running[Op_DigLinear] # IDLE_ID
  /\ \E i, j, k \in DOMAIN calls :
       /\ calls[i] = [ fn |-> "running", name |-> Op_DigLinear,
                       id |-> IDLE_ID, ok |-> TRUE ]
       /\ calls[j] = [ fn |-> "running", name |-> Op_PanAntenna,
                       id |-> IDLE_ID, ok |-> FALSE ]
       /\ calls[k] = [ fn |-> "running", name |-> "Drill",
                       id |-> IDLE_ID, ok |-> FALSE ]

\* C20: mark_operation_finished on an entry that is IDLE_ID emits no
\* "Running = false", no "Finished = true" and no status callback: the
\* events it adds, if any, are log lines.
C20_CompleteIdleIsNoOp ==
  [][ ( /\ Len(calls') = Len(calls) + 1
        /\ calls'[Len(calls')].fn = "complete"
        /\ Running[calls'[Len(calls')].name] = IDLE_ID ) =>
        LET name == calls'[Len(calls')].name IN
          \A i \in DOMAIN events'[name] :
            i > Len(events[name]) =>
              events'[name][i].kind \notin { "Running", "Finished", "Status" }
    ]_vars

(* ---------------- claims on the guards of the registry ------------------ *)

\* The events a step appends to the events of an operation.
NewEvents(name) ==
  SubSeq(events'[name], Len(events[name]) + 1, Len(events'[name]))

\* C21: mark_operation_finished logs the "was not running" line exactly
\* when the entry it completes is IDLE_ID.
C21_IdleCompletionLogged ==
  [][ ( /\ Len(calls') = Len(calls) + 1
        /\ calls'[Len(calls')].fn = "complete" ) =>
        LET name == calls'[Len(calls')].name IN
          (CountEv(NewEvents(name), Note("WARN_was_not_running")) > 0)
            <=> (Running[name] = IDLE_ID)
    ]_vars

\* C22: a panAntenna or tiltAntenna command that is rejected leaves the
\* goal angle and the start time of the operation as they were.
C22_RejectedKeepsGoalAndStart ==
  [][ ( /\ Len(cmds') = Len(cmds) + 1
        /\ ~cmds'[Len(cmds')].ok ) =>
        /\ cmds'[Len(cmds')].name = Op_PanAntenna =>
             m_goalPan' = m_goalPan /\ m_panStart' = m_panStart
        /\ cmds'[Len(cmds')].name = Op_TiltAntenna =>
             m_goalTilt' = m_goalTilt /\ m_tiltStart' = m_tiltStart
    ]_vars

\* C24: in every action thread the fault thread is started before the goal
\* is sent, and once the action thread has returned every fault thread it
\* started has been joined, after the completion of the operation.
C24_FaultThreadJoined ==
  \A name \in ActionOps :
    LET starts == CountEv(events[name], Note("fault_thread_start"))
        joins  == CountEv(events[name], Note("fault_thread_join"))
    IN /\ \A i \in DOMAIN events[name] :
            events[name][i].kind = "sendGoal" =>
              i > 1 /\ events[name][i - 1] = Note("fault_thread_start")
       /\ \A i \in DOMAIN events[name] :
            events[name][i] = Note("fault_thread_join") =>
              i > 1 /\ events[name][i - 1].kind \in { "Status", "Finished" }
       /\ pc[name] = "none" => starts = joins

\* C26: an admit that returns true leaves the operation Running, whatever
\* the id: the entry is not IDLE_ID afterwards, so that running (name) is
\* true and the next admit of the name is rejected.
C26_AdmittedIsRunning ==
  [][ ( /\ Len(calls') = Len(calls) + 1
        /\ calls'[Len(calls')].fn = "admit"
        /\ calls'[Len(calls')].ok ) =>
        LET name == calls'[Len(calls')].name IN
          /\ operationRunning(Running', name)
          /\ ~mark_operation_running(Running', name, 9).ok
    ]_vars

\* C27: when a GuardedMove is completed without its done callback having
\* fired, GroundFound does not hold the result of an earlier GuardedMove:
\* it is false.
C27_GroundFoundOfThisCommand ==
  [][ ( /\ Running[Op_GuardedMove] # IDLE_ID
        /\ Running'[Op_GuardedMove] = IDLE_ID
        /\ goal[Op_GuardedMove] # "done" ) => ~GroundFound'
    ]_vars

(* ------------------ claims on the completion by samples ---------------- *)

\* C25: for a Running pan or tilt, managePanTilt completes the operation
\* exactly when reached or expired holds, and otherwise changes nothing;
\* a step completes a Running pan or tilt only when reached or expired
\* holds for it, and while neither holds no step other than an entry-point
\* call changes its entry or its events.
C25_CompletesIffReachedOrExpired ==
  /\ [](\A op \in PanTiltOps :
          Running[op] # IDLE_ID =>
            LET a == PanTiltArgs(op)
                reached == Abs(a.current - a.goalAngle) <= DegreeTolerance
                expired == now > a.start + PanTiltTimeout
                S  == [ R |-> Running, ev |-> events ]
                S1 == managePanTilt(S, op, a.current, a.goalAngle, a.start,
                                    now)
            IN /\ (S1.R[op] = IDLE_ID) <=> (reached \/ expired)
               /\ ~(reached \/ expired) => S1 = S)
  /\ [][ \A op \in PanTiltOps :
           LET a == PanTiltArgs(op)
               reached == Abs(a.current - a.goalAngle) <= DegreeTolerance
               expired == now > a.start + PanTiltTimeout
           IN /\ SampleCompletes(op) => (reached \/ expired)
              /\ ( /\ Running[op] # IDLE_ID
                   /\ ~(reached \/ expired)
                   /\ cmds' = cmds ) =>
                   Running'[op] = Running[op] /\ events'[op] = events[op]
       ]_vars

\* C25 witness: a pan is Running on the boundary of the timeout (not
\* expired) and outside the tolerance, so that a sample leaves it Running;
\* and a tilt is Running on the boundary of the tolerance, so that a sample
\* completes it.
C25_Witness ==
  /\ initialized /\ ~terminated
  /\ Running[Op_PanAntenna] # IDLE_ID
  /\ now = m_panStart + PanTiltTimeout
  /\ Abs(m_currentPan - m_goalPan) > DegreeTolerance
  /\ Running[Op_TiltAntenna] # IDLE_ID
  /\ Abs(m_currentTilt - m_goalTilt) = DegreeTolerance

\* C29: the step that completes a Running TakePicture is the camera
\* callback: it resets the entry, emits "Running = false", "Finished =
\* true" and the status callback with the stored id, and changes nothing
\* else; no other step changes the entry of a Running TakePicture; and
\* while TakePicture is Idle a camera image changes nothing.
C29_CameraCompletesTakePicture ==
  /\ [][ Running[Op_TakePicture] # IDLE_ID =>
           \/ Running'[Op_TakePicture] = Running[Op_TakePicture]
           \/ /\ Running' = [ Running EXCEPT ![Op_TakePicture] = IDLE_ID ]
              /\ events' = [ events EXCEPT ![Op_TakePicture] =
                               @ \o << publish("Running", FALSE),
                                       publish("Finished", TRUE),
                                       Status(Running[Op_TakePicture], TRUE) >> ]
              /\ StatusCount(Running[Op_TakePicture]) = 0
              /\ UNCHANGED << initialized, terminated, threadVars, now,
                              antennaVars, nextId, cmds >>
       ]_vars
  /\ [](Running[Op_TakePicture] = IDLE_ID => ~ENABLED <<cameraCallback>>_vars)

\* C29 witness: a TakePicture was admitted, completed by an image and
\* reported once, and is Idle, so that further images find it Idle.
C29_Witness ==
  /\ initialized /\ ~terminated
  /\ Running[Op_TakePicture] = IDLE_ID
  /\ Completions(Op_TakePicture) = 1
  /\ \E i \in AdmittedCmds(Op_TakePicture) : StatusCount(cmds[i].id) = 1

(* ------------------- claims on the joint-state batches ----------------- *)

\* C23: after a joint-state message of any length the process runs on,
\* every entry of the message with a catalog name has its effort stored and
\* its torque-limit membership recomputed (in the hard-limit set at or
\* above the hard limit, in neither set below the soft limit), and one
\* error line has been logged for each entry with a foreign name and for
\* nothing else.
C23_EveryCatalogEntryStored ==
  [][ SampleDelivered =>
        LET msg == samples'[Len(samples')]
            foreign == { i \in DOMAIN msg.name :
                           msg.name[i] \notin DOMAIN JointPropMap }
        IN /\ ~terminated'
           /\ \A i \in DOMAIN msg.name \ foreign :
                LET j == msg.name[i]
                    n == JointPropMap[j].plexilName
                    mag == Abs(msg.effort[i])
                IN /\ j \in DOMAIN JointTelemetryMap'
                   /\ JointTelemetryMap'[j] = msg.effort[i]
                   /\ mag >= JointPropMap[j].hardTorqueLimit =>
                        n \in JointsAtHardTorqueLimit'
                   /\ mag < JointPropMap[j].softTorqueLimit =>
                        /\ n \notin JointsAtHardTorqueLimit'
                        /\ n \notin JointsAtSoftTorqueLimit'
           /\ Len(rosout') = Len(rosout) + Cardinality(foreign)
    ]_vars

(* ---------------- claims on completion against admission --------------- *)

\* C28: while a completing thread is between the reset of the entry and
\* its status callback, no command has been admitted for that operation:
\* the entry is still IDLE_ID.
C28_StatusBeforeNextAdmit ==
  \A t \in 1..NumCallers :
    caller[t].pc \in { "publish", "status" } =>
      Running[caller[t].name] = IDLE_ID

(* ------------------- claims on the pan/tilt deadline ------------------- *)

\* The time at which the command now Running on name was admitted: the time
\* of the admitted call that carries the id of the entry.
AdmittedAt(name) ==
  LET i == CHOOSE k \in DOMAIN calls :
             calls[k].name = name /\ calls[k].ok /\ calls[k].id = Running[name]
  IN calls[i].t

\* The ROS joint that governs a pan or tilt operation.
GovernedJoint(name) ==
  IF name = Op_PanAntenna THEN "j_ant_pan" ELSE "j_ant_tilt"

\* C30: in every state where a pan or tilt command is Running and its
\* deadline (the time it was admitted plus PanTiltTimeout) has passed, the
\* processing of a joint-state sample that contains the governed joint
\* returns the operation to Idle.  (A sample that completes nothing changes
\* no variable, so the outcome of the callback is stated on the state in
\* which it is delivered.)
C30_IdleAtFirstSampleAfterDeadline ==
  \A batch \in Batches, name \in { Op_PanAntenna, Op_TiltAntenna } :
    ( /\ ~terminated /\ initialized
      /\ \E i \in DOMAIN batch : batch[i] = GovernedJoint(name)
      /\ operationRunning(Running, name)
      /\ now > AdmittedAt(name) + PanTiltTimeout )
    => ~operationRunning(
          JointLoop([ R |-> Running, ev |-> events ], batch, 1, now).R, name)

====
